---- MODULE Spec2Model ----
(***************************************************************************)
(* Model of main.py: fetch_papers() (one OpenAlex request, journal         *)
(* allow-list filter), generate_html() (Jinja2 template written to         *)
(* index.html) and the __main__ block that runs them in sequence.          *)
(*                                                                         *)
(* A Python str is a sequence of code points (integers), the content of a  *)
(* file a sequence of bytes.  A JSON value is a record with a kind field   *)
(* k: "absent" (key not in the dict), "null" (None), "dict", "str", "num". *)
(* Case mapping follows the Unicode 14 tables of CPython 3.11; buffer      *)
(* sizes and line endings are those of Linux.                              *)
(***************************************************************************)
EXTENDS Integers, Sequences, FiniteSets, TLC

\* ------------------------------------------------------------- bounds
\* longest results array of a modelled API response
MaxResults == 2
\* number of distinct calendar days date.today() may return
MaxDay == 2
\* most cards in a document written by a racing instance
MaxPapers == 2
\* length of the one long results array, whose document is too large for
\* the file object's buffers
LongResults == 9

\* ------------------------------------------------------------- text
\* the code points with a one-character lower case other than themselves:
\* <<lo, hi, step, delta>> stands for lo, lo + step, ... up to hi, each
\* mapped to itself plus delta
LowerRanges ==
  {
    <<65, 90, 1, 32>>, <<192, 214, 1, 32>>, <<216, 222, 1, 32>>, <<256, 302,
    2, 1>>, <<306, 310, 2, 1>>, <<313, 327, 2, 1>>, <<330, 374, 2, 1>>, <<376,
    376, 1, -121>>, <<377, 381, 2, 1>>, <<385, 385, 1, 210>>, <<386, 388, 2,
    1>>, <<390, 390, 1, 206>>, <<391, 391, 1, 1>>, <<393, 394, 1, 205>>,
    <<395, 395, 1, 1>>, <<398, 398, 1, 79>>, <<399, 399, 1, 202>>, <<400, 400,
    1, 203>>, <<401, 401, 1, 1>>, <<403, 403, 1, 205>>, <<404, 404, 1, 207>>,
    <<406, 406, 1, 211>>, <<407, 407, 1, 209>>, <<408, 408, 1, 1>>, <<412,
    412, 1, 211>>, <<413, 413, 1, 213>>, <<415, 415, 1, 214>>, <<416, 420, 2,
    1>>, <<422, 422, 1, 218>>, <<423, 423, 1, 1>>, <<425, 425, 1, 218>>,
    <<428, 428, 1, 1>>, <<430, 430, 1, 218>>, <<431, 431, 1, 1>>, <<433, 434,
    1, 217>>, <<435, 437, 2, 1>>, <<439, 439, 1, 219>>, <<440, 440, 1, 1>>,
    <<444, 444, 1, 1>>, <<452, 452, 1, 2>>, <<453, 453, 1, 1>>, <<455, 455, 1,
    2>>, <<456, 456, 1, 1>>, <<458, 458, 1, 2>>, <<459, 475, 2, 1>>, <<478,
    494, 2, 1>>, <<497, 497, 1, 2>>, <<498, 500, 2, 1>>, <<502, 502, 1, -97>>,
    <<503, 503, 1, -56>>, <<504, 542, 2, 1>>, <<544, 544, 1, -130>>, <<546,
    562, 2, 1>>, <<570, 570, 1, 10795>>, <<571, 571, 1, 1>>, <<573, 573, 1,
    -163>>, <<574, 574, 1, 10792>>, <<577, 577, 1, 1>>, <<579, 579, 1, -195>>,
    <<580, 580, 1, 69>>, <<581, 581, 1, 71>>, <<582, 590, 2, 1>>, <<880, 882,
    2, 1>>, <<886, 886, 1, 1>>, <<895, 895, 1, 116>>, <<902, 902, 1, 38>>,
    <<904, 906, 1, 37>>, <<908, 908, 1, 64>>, <<910, 911, 1, 63>>, <<913, 929,
    1, 32>>, <<931, 939, 1, 32>>, <<975, 975, 1, 8>>, <<984, 1006, 2, 1>>,
    <<1012, 1012, 1, -60>>, <<1015, 1015, 1, 1>>, <<1017, 1017, 1, -7>>,
    <<1018, 1018, 1, 1>>, <<1021, 1023, 1, -130>>, <<1024, 1039, 1, 80>>,
    <<1040, 1071, 1, 32>>, <<1120, 1152, 2, 1>>, <<1162, 1214, 2, 1>>, <<1216,
    1216, 1, 15>>, <<1217, 1229, 2, 1>>, <<1232, 1326, 2, 1>>, <<1329, 1366,
    1, 48>>, <<4256, 4293, 1, 7264>>, <<4295, 4295, 1, 7264>>, <<4301, 4301,
    1, 7264>>, <<5024, 5103, 1, 38864>>, <<5104, 5109, 1, 8>>, <<7312, 7354,
    1, -3008>>, <<7357, 7359, 1, -3008>>, <<7680, 7828, 2, 1>>, <<7838, 7838,
    1, -7615>>, <<7840, 7934, 2, 1>>, <<7944, 7951, 1, -8>>, <<7960, 7965, 1,
    -8>>, <<7976, 7983, 1, -8>>, <<7992, 7999, 1, -8>>, <<8008, 8013, 1, -8>>,
    <<8025, 8031, 2, -8>>, <<8040, 8047, 1, -8>>, <<8072, 8079, 1, -8>>,
    <<8088, 8095, 1, -8>>, <<8104, 8111, 1, -8>>, <<8120, 8121, 1, -8>>,
    <<8122, 8123, 1, -74>>, <<8124, 8124, 1, -9>>, <<8136, 8139, 1, -86>>,
    <<8140, 8140, 1, -9>>, <<8152, 8153, 1, -8>>, <<8154, 8155, 1, -100>>,
    <<8168, 8169, 1, -8>>, <<8170, 8171, 1, -112>>, <<8172, 8172, 1, -7>>,
    <<8184, 8185, 1, -128>>, <<8186, 8187, 1, -126>>, <<8188, 8188, 1, -9>>,
    <<8486, 8486, 1, -7517>>, <<8490, 8490, 1, -8383>>, <<8491, 8491, 1,
    -8262>>, <<8498, 8498, 1, 28>>, <<8544, 8559, 1, 16>>, <<8579, 8579, 1,
    1>>, <<9398, 9423, 1, 26>>, <<11264, 11311, 1, 48>>, <<11360, 11360, 1,
    1>>, <<11362, 11362, 1, -10743>>, <<11363, 11363, 1, -3814>>, <<11364,
    11364, 1, -10727>>, <<11367, 11371, 2, 1>>, <<11373, 11373, 1, -10780>>,
    <<11374, 11374, 1, -10749>>, <<11375, 11375, 1, -10783>>, <<11376, 11376,
    1, -10782>>, <<11378, 11378, 1, 1>>, <<11381, 11381, 1, 1>>, <<11390,
    11391, 1, -10815>>, <<11392, 11490, 2, 1>>, <<11499, 11501, 2, 1>>,
    <<11506, 11506, 1, 1>>, <<42560, 42604, 2, 1>>, <<42624, 42650, 2, 1>>,
    <<42786, 42798, 2, 1>>, <<42802, 42862, 2, 1>>, <<42873, 42875, 2, 1>>,
    <<42877, 42877, 1, -35332>>, <<42878, 42886, 2, 1>>, <<42891, 42891, 1,
    1>>, <<42893, 42893, 1, -42280>>, <<42896, 42898, 2, 1>>, <<42902, 42920,
    2, 1>>, <<42922, 42922, 1, -42308>>, <<42923, 42923, 1, -42319>>, <<42924,
    42924, 1, -42315>>, <<42925, 42925, 1, -42305>>, <<42926, 42926, 1,
    -42308>>, <<42928, 42928, 1, -42258>>, <<42929, 42929, 1, -42282>>,
    <<42930, 42930, 1, -42261>>, <<42931, 42931, 1, 928>>, <<42932, 42946, 2,
    1>>, <<42948, 42948, 1, -48>>, <<42949, 42949, 1, -42307>>, <<42950,
    42950, 1, -35384>>, <<42951, 42953, 2, 1>>, <<42960, 42960, 1, 1>>,
    <<42966, 42968, 2, 1>>, <<42997, 42997, 1, 1>>, <<65313, 65338, 1, 32>>,
    <<66560, 66599, 1, 40>>, <<66736, 66771, 1, 40>>, <<66928, 66938, 1, 39>>,
    <<66940, 66954, 1, 39>>, <<66956, 66962, 1, 39>>, <<66964, 66965, 1, 39>>,
    <<68736, 68786, 1, 64>>, <<71840, 71871, 1, 32>>, <<93760, 93791, 1, 32>>,
    <<125184, 125217, 1, 34>>
  }

\* the code points with the Cased property, as ranges <<lo, hi>>
CasedRanges ==
  {
    <<65, 90>>, <<97, 122>>, <<170, 170>>, <<181, 181>>, <<186, 186>>, <<192,
    214>>, <<216, 246>>, <<248, 442>>, <<444, 447>>, <<452, 659>>, <<661,
    696>>, <<704, 705>>, <<736, 740>>, <<837, 837>>, <<880, 883>>, <<886,
    887>>, <<890, 893>>, <<895, 895>>, <<902, 902>>, <<904, 906>>, <<908,
    908>>, <<910, 929>>, <<931, 1013>>, <<1015, 1153>>, <<1162, 1327>>,
    <<1329, 1366>>, <<1376, 1416>>, <<4256, 4293>>, <<4295, 4295>>, <<4301,
    4301>>, <<4304, 4346>>, <<4349, 4351>>, <<5024, 5109>>, <<5112, 5117>>,
    <<7296, 7304>>, <<7312, 7354>>, <<7357, 7359>>, <<7424, 7615>>, <<7680,
    7957>>, <<7960, 7965>>, <<7968, 8005>>, <<8008, 8013>>, <<8016, 8023>>,
    <<8025, 8025>>, <<8027, 8027>>, <<8029, 8029>>, <<8031, 8061>>, <<8064,
    8116>>, <<8118, 8124>>, <<8126, 8126>>, <<8130, 8132>>, <<8134, 8140>>,
    <<8144, 8147>>, <<8150, 8155>>, <<8160, 8172>>, <<8178, 8180>>, <<8182,
    8188>>, <<8305, 8305>>, <<8319, 8319>>, <<8336, 8348>>, <<8450, 8450>>,
    <<8455, 8455>>, <<8458, 8467>>, <<8469, 8469>>, <<8473, 8477>>, <<8484,
    8484>>, <<8486, 8486>>, <<8488, 8488>>, <<8490, 8493>>, <<8495, 8500>>,
    <<8505, 8505>>, <<8508, 8511>>, <<8517, 8521>>, <<8526, 8526>>, <<8544,
    8575>>, <<8579, 8580>>, <<9398, 9449>>, <<11264, 11492>>, <<11499,
    11502>>, <<11506, 11507>>, <<11520, 11557>>, <<11559, 11559>>, <<11565,
    11565>>, <<42560, 42605>>, <<42624, 42653>>, <<42786, 42887>>, <<42891,
    42894>>, <<42896, 42954>>, <<42960, 42961>>, <<42963, 42963>>, <<42965,
    42969>>, <<42997, 42998>>, <<43000, 43002>>, <<43824, 43866>>, <<43868,
    43880>>, <<43888, 43967>>, <<64256, 64262>>, <<64275, 64279>>, <<65313,
    65338>>, <<65345, 65370>>, <<66560, 66639>>, <<66736, 66771>>, <<66776,
    66811>>, <<66928, 66938>>, <<66940, 66954>>, <<66956, 66962>>, <<66964,
    66965>>, <<66967, 66977>>, <<66979, 66993>>, <<66995, 67001>>, <<67003,
    67004>>, <<67456, 67456>>, <<67459, 67461>>, <<67463, 67504>>, <<67506,
    67514>>, <<68736, 68786>>, <<68800, 68850>>, <<71840, 71903>>, <<93760,
    93823>>, <<119808, 119892>>, <<119894, 119964>>, <<119966, 119967>>,
    <<119970, 119970>>, <<119973, 119974>>, <<119977, 119980>>, <<119982,
    119993>>, <<119995, 119995>>, <<119997, 120003>>, <<120005, 120069>>,
    <<120071, 120074>>, <<120077, 120084>>, <<120086, 120092>>, <<120094,
    120121>>, <<120123, 120126>>, <<120128, 120132>>, <<120134, 120134>>,
    <<120138, 120144>>, <<120146, 120485>>, <<120488, 120512>>, <<120514,
    120538>>, <<120540, 120570>>, <<120572, 120596>>, <<120598, 120628>>,
    <<120630, 120654>>, <<120656, 120686>>, <<120688, 120712>>, <<120714,
    120744>>, <<120746, 120770>>, <<120772, 120779>>, <<122624, 122633>>,
    <<122635, 122654>>, <<125184, 125251>>, <<127280, 127305>>, <<127312,
    127337>>, <<127344, 127369>>
  }

\* the code points with the Case_Ignorable property, as ranges <<lo, hi>>
CaseIgnorableRanges ==
  {
    <<39, 39>>, <<46, 46>>, <<58, 58>>, <<94, 94>>, <<96, 96>>, <<168, 168>>,
    <<173, 173>>, <<175, 175>>, <<180, 180>>, <<183, 184>>, <<688, 879>>,
    <<884, 885>>, <<890, 890>>, <<900, 901>>, <<903, 903>>, <<1155, 1161>>,
    <<1369, 1369>>, <<1375, 1375>>, <<1425, 1469>>, <<1471, 1471>>, <<1473,
    1474>>, <<1476, 1477>>, <<1479, 1479>>, <<1524, 1524>>, <<1536, 1541>>,
    <<1552, 1562>>, <<1564, 1564>>, <<1600, 1600>>, <<1611, 1631>>, <<1648,
    1648>>, <<1750, 1757>>, <<1759, 1768>>, <<1770, 1773>>, <<1807, 1807>>,
    <<1809, 1809>>, <<1840, 1866>>, <<1958, 1968>>, <<2027, 2037>>, <<2042,
    2042>>, <<2045, 2045>>, <<2070, 2093>>, <<2137, 2139>>, <<2184, 2184>>,
    <<2192, 2193>>, <<2200, 2207>>, <<2249, 2306>>, <<2362, 2362>>, <<2364,
    2364>>, <<2369, 2376>>, <<2381, 2381>>, <<2385, 2391>>, <<2402, 2403>>,
    <<2417, 2417>>, <<2433, 2433>>, <<2492, 2492>>, <<2497, 2500>>, <<2509,
    2509>>, <<2530, 2531>>, <<2558, 2558>>, <<2561, 2562>>, <<2620, 2620>>,
    <<2625, 2626>>, <<2631, 2632>>, <<2635, 2637>>, <<2641, 2641>>, <<2672,
    2673>>, <<2677, 2677>>, <<2689, 2690>>, <<2748, 2748>>, <<2753, 2757>>,
    <<2759, 2760>>, <<2765, 2765>>, <<2786, 2787>>, <<2810, 2815>>, <<2817,
    2817>>, <<2876, 2876>>, <<2879, 2879>>, <<2881, 2884>>, <<2893, 2893>>,
    <<2901, 2902>>, <<2914, 2915>>, <<2946, 2946>>, <<3008, 3008>>, <<3021,
    3021>>, <<3072, 3072>>, <<3076, 3076>>, <<3132, 3132>>, <<3134, 3136>>,
    <<3142, 3144>>, <<3146, 3149>>, <<3157, 3158>>, <<3170, 3171>>, <<3201,
    3201>>, <<3260, 3260>>, <<3263, 3263>>, <<3270, 3270>>, <<3276, 3277>>,
    <<3298, 3299>>, <<3328, 3329>>, <<3387, 3388>>, <<3393, 3396>>, <<3405,
    3405>>, <<3426, 3427>>, <<3457, 3457>>, <<3530, 3530>>, <<3538, 3540>>,
    <<3542, 3542>>, <<3633, 3633>>, <<3636, 3642>>, <<3654, 3662>>, <<3761,
    3761>>, <<3764, 3772>>, <<3782, 3782>>, <<3784, 3789>>, <<3864, 3865>>,
    <<3893, 3893>>, <<3895, 3895>>, <<3897, 3897>>, <<3953, 3966>>, <<3968,
    3972>>, <<3974, 3975>>, <<3981, 3991>>, <<3993, 4028>>, <<4038, 4038>>,
    <<4141, 4144>>, <<4146, 4151>>, <<4153, 4154>>, <<4157, 4158>>, <<4184,
    4185>>, <<4190, 4192>>, <<4209, 4212>>, <<4226, 4226>>, <<4229, 4230>>,
    <<4237, 4237>>, <<4253, 4253>>, <<4348, 4348>>, <<4957, 4959>>, <<5906,
    5908>>, <<5938, 5939>>, <<5970, 5971>>, <<6002, 6003>>, <<6068, 6069>>,
    <<6071, 6077>>, <<6086, 6086>>, <<6089, 6099>>, <<6103, 6103>>, <<6109,
    6109>>, <<6155, 6159>>, <<6211, 6211>>, <<6277, 6278>>, <<6313, 6313>>,
    <<6432, 6434>>, <<6439, 6440>>, <<6450, 6450>>, <<6457, 6459>>, <<6679,
    6680>>, <<6683, 6683>>, <<6742, 6742>>, <<6744, 6750>>, <<6752, 6752>>,
    <<6754, 6754>>, <<6757, 6764>>, <<6771, 6780>>, <<6783, 6783>>, <<6823,
    6823>>, <<6832, 6862>>, <<6912, 6915>>, <<6964, 6964>>, <<6966, 6970>>,
    <<6972, 6972>>, <<6978, 6978>>, <<7019, 7027>>, <<7040, 7041>>, <<7074,
    7077>>, <<7080, 7081>>, <<7083, 7085>>, <<7142, 7142>>, <<7144, 7145>>,
    <<7149, 7149>>, <<7151, 7153>>, <<7212, 7219>>, <<7222, 7223>>, <<7288,
    7293>>, <<7376, 7378>>, <<7380, 7392>>, <<7394, 7400>>, <<7405, 7405>>,
    <<7412, 7412>>, <<7416, 7417>>, <<7468, 7530>>, <<7544, 7544>>, <<7579,
    7679>>, <<8125, 8125>>, <<8127, 8129>>, <<8141, 8143>>, <<8157, 8159>>,
    <<8173, 8175>>, <<8189, 8190>>, <<8203, 8207>>, <<8216, 8217>>, <<8228,
    8228>>, <<8231, 8231>>, <<8234, 8238>>, <<8288, 8292>>, <<8294, 8303>>,
    <<8305, 8305>>, <<8319, 8319>>, <<8336, 8348>>, <<8400, 8432>>, <<11388,
    11389>>, <<11503, 11505>>, <<11631, 11631>>, <<11647, 11647>>, <<11744,
    11775>>, <<11823, 11823>>, <<12293, 12293>>, <<12330, 12333>>, <<12337,
    12341>>, <<12347, 12347>>, <<12441, 12446>>, <<12540, 12542>>, <<40981,
    40981>>, <<42232, 42237>>, <<42508, 42508>>, <<42607, 42610>>, <<42612,
    42621>>, <<42623, 42623>>, <<42652, 42655>>, <<42736, 42737>>, <<42752,
    42785>>, <<42864, 42864>>, <<42888, 42890>>, <<42994, 42996>>, <<43000,
    43001>>, <<43010, 43010>>, <<43014, 43014>>, <<43019, 43019>>, <<43045,
    43046>>, <<43052, 43052>>, <<43204, 43205>>, <<43232, 43249>>, <<43263,
    43263>>, <<43302, 43309>>, <<43335, 43345>>, <<43392, 43394>>, <<43443,
    43443>>, <<43446, 43449>>, <<43452, 43453>>, <<43471, 43471>>, <<43493,
    43494>>, <<43561, 43566>>, <<43569, 43570>>, <<43573, 43574>>, <<43587,
    43587>>, <<43596, 43596>>, <<43632, 43632>>, <<43644, 43644>>, <<43696,
    43696>>, <<43698, 43700>>, <<43703, 43704>>, <<43710, 43711>>, <<43713,
    43713>>, <<43741, 43741>>, <<43756, 43757>>, <<43763, 43764>>, <<43766,
    43766>>, <<43867, 43871>>, <<43881, 43883>>, <<44005, 44005>>, <<44008,
    44008>>, <<44013, 44013>>, <<64286, 64286>>, <<64434, 64450>>, <<65024,
    65039>>, <<65043, 65043>>, <<65056, 65071>>, <<65106, 65106>>, <<65109,
    65109>>, <<65279, 65279>>, <<65287, 65287>>, <<65294, 65294>>, <<65306,
    65306>>, <<65342, 65342>>, <<65344, 65344>>, <<65392, 65392>>, <<65438,
    65439>>, <<65507, 65507>>, <<65529, 65531>>, <<66045, 66045>>, <<66272,
    66272>>, <<66422, 66426>>, <<67456, 67461>>, <<67463, 67504>>, <<67506,
    67514>>, <<68097, 68099>>, <<68101, 68102>>, <<68108, 68111>>, <<68152,
    68154>>, <<68159, 68159>>, <<68325, 68326>>, <<68900, 68903>>, <<69291,
    69292>>, <<69446, 69456>>, <<69506, 69509>>, <<69633, 69633>>, <<69688,
    69702>>, <<69744, 69744>>, <<69747, 69748>>, <<69759, 69761>>, <<69811,
    69814>>, <<69817, 69818>>, <<69821, 69821>>, <<69826, 69826>>, <<69837,
    69837>>, <<69888, 69890>>, <<69927, 69931>>, <<69933, 69940>>, <<70003,
    70003>>, <<70016, 70017>>, <<70070, 70078>>, <<70089, 70092>>, <<70095,
    70095>>, <<70191, 70193>>, <<70196, 70196>>, <<70198, 70199>>, <<70206,
    70206>>, <<70367, 70367>>, <<70371, 70378>>, <<70400, 70401>>, <<70459,
    70460>>, <<70464, 70464>>, <<70502, 70508>>, <<70512, 70516>>, <<70712,
    70719>>, <<70722, 70724>>, <<70726, 70726>>, <<70750, 70750>>, <<70835,
    70840>>, <<70842, 70842>>, <<70847, 70848>>, <<70850, 70851>>, <<71090,
    71093>>, <<71100, 71101>>, <<71103, 71104>>, <<71132, 71133>>, <<71219,
    71226>>, <<71229, 71229>>, <<71231, 71232>>, <<71339, 71339>>, <<71341,
    71341>>, <<71344, 71349>>, <<71351, 71351>>, <<71453, 71455>>, <<71458,
    71461>>, <<71463, 71467>>, <<71727, 71735>>, <<71737, 71738>>, <<71995,
    71996>>, <<71998, 71998>>, <<72003, 72003>>, <<72148, 72151>>, <<72154,
    72155>>, <<72160, 72160>>, <<72193, 72202>>, <<72243, 72248>>, <<72251,
    72254>>, <<72263, 72263>>, <<72273, 72278>>, <<72281, 72283>>, <<72330,
    72342>>, <<72344, 72345>>, <<72752, 72758>>, <<72760, 72765>>, <<72767,
    72767>>, <<72850, 72871>>, <<72874, 72880>>, <<72882, 72883>>, <<72885,
    72886>>, <<73009, 73014>>, <<73018, 73018>>, <<73020, 73021>>, <<73023,
    73029>>, <<73031, 73031>>, <<73104, 73105>>, <<73109, 73109>>, <<73111,
    73111>>, <<73459, 73460>>, <<78896, 78904>>, <<92912, 92916>>, <<92976,
    92982>>, <<92992, 92995>>, <<94031, 94031>>, <<94095, 94111>>, <<94176,
    94177>>, <<94179, 94180>>, <<110576, 110579>>, <<110581, 110587>>,
    <<110589, 110590>>, <<113821, 113822>>, <<113824, 113827>>, <<118528,
    118573>>, <<118576, 118598>>, <<119143, 119145>>, <<119155, 119170>>,
    <<119173, 119179>>, <<119210, 119213>>, <<119362, 119364>>, <<121344,
    121398>>, <<121403, 121452>>, <<121461, 121461>>, <<121476, 121476>>,
    <<121499, 121503>>, <<121505, 121519>>, <<122880, 122886>>, <<122888,
    122904>>, <<122907, 122913>>, <<122915, 122916>>, <<122918, 122922>>,
    <<123184, 123197>>, <<123566, 123566>>, <<123628, 123631>>, <<125136,
    125142>>, <<125252, 125259>>, <<127995, 127999>>, <<917505, 917505>>,
    <<917536, 917631>>, <<917760, 917999>>
  }

LowerOf ==
  [c \in UNION {{r[1] + (k * r[3]) : k \in 0..((r[2] - r[1]) \div r[3])} :
                  r \in LowerRanges} |->
     c + (CHOOSE r \in LowerRanges :
            r[1] <= c /\ c <= r[2] /\ (c - r[1]) % r[3] = 0)[4]]

\* chr(c).lower(): capital I with dot above (U+0130) becomes i and a
\* combining dot, the only lower case of more than one character
LowerChar(c) ==
  IF c = 304 THEN <<105, 775>>
  ELSE IF c \in DOMAIN LowerOf THEN <<LowerOf[c]>>
  ELSE <<c>>

CasedChars == UNION {r[1]..r[2] : r \in CasedRanges}

CaseIgnorableChars == UNION {r[1]..r[2] : r \in CaseIgnorableRanges}

Cased(c) == c \in CasedChars

CaseIgnorable(c) == c \in CaseIgnorableChars

\* the capital sigma at s[i] is final: the nearest character before it that
\* is not case-ignorable is cased, and the nearest one after it, if any, is
\* not
FinalSigma(s, i) ==
  LET before == {j \in 1..(i - 1) : ~CaseIgnorable(s[j])}
      after == {j \in (i + 1)..Len(s) : ~CaseIgnorable(s[j])}
  IN /\ before # {}
     /\ Cased(s[CHOOSE j \in before : \A m \in before : m <= j])
     /\ \/ after = {}
        \/ ~Cased(s[CHOOSE j \in after : \A m \in after : j <= m])

\* what str.lower() puts for s[i]: capital sigma (U+03A3) becomes final
\* (U+03C2) or medial (U+03C3) small sigma
LowerAt(s, i) ==
  IF s[i] = 931
  THEN << IF FinalSigma(s, i) THEN 962 ELSE 963 >>
  ELSE LowerChar(s[i])

\* str.lower() on s[lo..hi] as part of s
RECURSIVE LowerRange(_, _, _)
LowerRange(s, lo, hi) ==
  IF lo > hi THEN <<>>
  ELSE IF lo = hi THEN LowerAt(s, lo)
  ELSE LET mid == (lo + hi) \div 2 IN
       LowerRange(s, lo, mid) \o LowerRange(s, mid + 1, hi)

\* str.lower()
Lower(s) == LowerRange(s, 1, Len(s))

\* Python's  a in b  on two strings
IsSubstring(a, b) ==
  \E i \in 0..(Len(b) - Len(a)) : SubSeq(b, i + 1, i + Len(a)) = a

\* the UTF-8 bytes of a code point
Utf8(c) ==
  IF c < 128 THEN <<c>>
  ELSE IF c < 2048 THEN <<192 + (c \div 64), 128 + (c % 64)>>
  ELSE IF c < 65536
       THEN <<224 + (c \div 4096), 128 + ((c \div 64) % 64), 128 + (c % 64)>>
       ELSE <<240 + (c \div 262144), 128 + ((c \div 4096) % 64),
              128 + ((c \div 64) % 64), 128 + (c % 64)>>

\* the positions of the characters of text that are not ASCII, ascending
NonAscii(text) ==
  SelectSeq([i \in 1..Len(text) |-> i], LAMBDA i : text[i] >= 128)

\* text.encode("utf-8") raises UnicodeEncodeError on a surrogate code point
EncodeRaises(text) ==
  \E i \in 1..Len(text) : 55296 <= text[i] /\ text[i] <= 57343

\* the bytes of text[lo..hi], the non-ASCII positions in that stretch being
\* idx[a..b]: an ASCII stretch is its own encoding
RECURSIVE EncodeRange(_, _, _, _, _, _)
EncodeRange(text, idx, a, b, lo, hi) ==
  IF a > b THEN SubSeq(text, lo, hi)
  ELSE LET mid == (a + b) \div 2 IN
       EncodeRange(text, idx, a, mid - 1, lo, idx[mid] - 1)
         \o Utf8(text[idx[mid]])
         \o EncodeRange(text, idx, mid + 1, b, idx[mid] + 1, hi)

\* text.encode("utf-8")
Encode(text) ==
  LET idx == NonAscii(text) IN
  EncodeRange(text, idx, 1, Len(idx), 1, Len(text))

\* ------------------------------------------------------------- configuration
TARGET_JOURNALS ==
  << \* "Nature"
     <<78, 97, 116, 117, 114, 101>>,
     \* "Science"
     <<83, 99, 105, 101, 110, 99, 101>>,
     \* "Proceedings of the National Academy of Sciences"
     <<80, 114, 111, 99, 101, 101, 100, 105, 110, 103, 115, 32, 111, 102,
       32, 116, 104, 101, 32, 78, 97, 116, 105, 111, 110, 97, 108, 32, 65, 99,
       97, 100, 101, 109, 121, 32, 111, 102, 32, 83, 99, 105, 101, 110, 99,
       101, 115>>,
     \* "Nature Communications"
     <<78, 97, 116, 117, 114, 101, 32, 67, 111, 109, 109, 117, 110, 105, 99,
       97, 116, 105, 111, 110, 115>>,
     \* "Science Advances"
     <<83, 99, 105, 101, 110, 99, 101, 32, 65, 100, 118, 97, 110, 99, 101,
       115>> >>

\* ------------------------------------------------------------- JSON values
\* leaf values: title, publication_date, doi, display_name
Absent == [k |-> "absent", s |-> <<>>]
Null == [k |-> "null", s |-> <<>>]
Str(s) == [k |-> "str", s |-> s]
Num(s) == [k |-> "num", s |-> s]

\* dict.get(key) with the default None: a missing key reads as None
GetOrNone(v) == IF v.k = "absent" THEN Null ELSE v

\* a source descriptor: other says whether the dict has keys besides
\* display_name
SourceDict(dn, other) == [k |-> "dict", display_name |-> dn, other |-> other]
SourceAbsent == [k |-> "absent", display_name |-> Absent, other |-> FALSE]
SourceNull == [k |-> "null", display_name |-> Absent, other |-> FALSE]

\* a primary_location value
LocDict(src) == [k |-> "dict", source |-> src]
LocAbsent == [k |-> "absent", source |-> SourceAbsent]
LocNull == [k |-> "null", source |-> SourceAbsent]

\* one element of the results array
Item(loc, title, date, doi) ==
  [k |-> "dict", primary_location |-> loc, title |-> title,
   publication_date |-> date, doi |-> doi, abstract_inverted_index |-> Null]

\* ------------------------------------------------------------- fetch_papers
\* item.get('primary_location', {}).get('source', {}): the first get needs
\* item to be a dict, the second needs primary_location to be a dict (a
\* missing key reads as {}, a null does not); both raise AttributeError
\* otherwise
SourceLookupRaises(item) ==
  \/ item.k # "dict"
  \/ item.primary_location.k = "null"

\* the value bound to source when the lookup does not raise
SourceOf(item) ==
  IF item.primary_location.k = "absent"
  THEN SourceDict(Absent, FALSE)
  ELSE IF item.primary_location.source.k = "absent"
       THEN SourceDict(Absent, FALSE)
       ELSE item.primary_location.source

\* Python truthiness of source: None and the empty dict are falsy
SourceTruthy(src) ==
  /\ src.k = "dict"
  /\ (src.display_name.k # "absent" \/ src.other)

\* source.get('display_name', '')
JournalName(src) ==
  IF src.display_name.k = "absent" THEN Str(<<>>) ELSE src.display_name

\* journal_name.lower() raises AttributeError unless journal_name is a str
LowerRaises(journal_name) == journal_name.k # "str"

\* tj.lower() for tj in TARGET_JOURNALS
LoweredTargets == [i \in 1..Len(TARGET_JOURNALS) |-> Lower(TARGET_JOURNALS[i])]

\* any(tj.lower() in journal_name.lower() for tj in TARGET_JOURNALS)
IsTopJournal(name) ==
  LET lowered == Lower(name) IN
  \E i \in 1..Len(LoweredTargets) : IsSubstring(LoweredTargets[i], lowered)

\* the paper dict built for an accepted item
Paper(item, journal_name) ==
  [title |-> GetOrNone(item.title),
   journal |-> journal_name,
   date |-> GetOrNone(item.publication_date),
   link |-> GetOrNone(item.doi),
   abstract |-> GetOrNone(item.abstract_inverted_index)]

\* one iteration of the for loop: "raise" (an exception leaves the loop),
\* "skip" (continue at "if not source"), "drop" (not a top journal) or
\* "keep" (paper appended)
LoopBody(item) ==
  IF SourceLookupRaises(item) THEN "raise"
  ELSE IF ~SourceTruthy(SourceOf(item)) THEN "skip"
  ELSE IF LowerRaises(JournalName(SourceOf(item))) THEN "raise"
  ELSE IF IsTopJournal(JournalName(SourceOf(item)).s) THEN "keep"
  ELSE "drop"

\* the for loop from element i on, filtered_papers being acc: the loop's
\* outcome and filtered_papers at the moment the loop is left
RECURSIVE ForLoop(_, _, _)
ForLoop(items, i, acc) ==
  IF i > Len(items) THEN [raised |-> FALSE, filtered_papers |-> acc]
  ELSE LET b == LoopBody(items[i]) IN
       IF b = "raise" THEN [raised |-> TRUE, filtered_papers |-> acc]
       ELSE IF b = "keep"
            THEN ForLoop(items, i + 1,
                   Append(acc, Paper(items[i], JournalName(SourceOf(items[i])))))
            ELSE ForLoop(items, i + 1, acc)

\* an API exchange: kind "neterr" (requests.get raises), "badjson"
\* (response.json() raises), "notdict" (the JSON document is not an object,
\* so data.get raises) or "dict"; results is the value under 'results'
Response(kind, rk, items) == [kind |-> kind, rk |-> rk, items |-> items]

\* the body of the try block: request, parse and loop
TryBody(resp) ==
  IF resp.kind # "dict" THEN [raised |-> TRUE, filtered_papers |-> <<>>]
  ELSE IF resp.rk = "absent" THEN [raised |-> FALSE, filtered_papers |-> <<>>]
  ELSE IF resp.rk = "null" THEN [raised |-> TRUE, filtered_papers |-> <<>>]
  ELSE ForLoop(resp.items, 1, <<>>)

\* a line of standard output
Line(what, n) == [line |-> what, n |-> n]

\* fault variant: the handler returns what the loop had collected
ExceptHandlerPartial(body) ==
  [propagates |-> FALSE, ret |-> body.filtered_papers,
   out |-> << Line("error", 0) >>]

\* fault variant: the handler returns [] without printing
ExceptHandlerSilent(body) ==
  [propagates |-> FALSE, ret |-> <<>>, out |-> <<>>]

\* fault variant: the handler lets the exception through
ExceptHandlerReraise(body) ==
  [propagates |-> TRUE, ret |-> <<>>, out |-> <<>>]

\* except Exception as e: print the error line, return []
ExceptHandler(body) ==
  [propagates |-> FALSE, ret |-> <<>>, out |-> << Line("error", 0) >>]

\* fetch_papers(): what the caller sees (a return value or an exception), the
\* lines printed, and the try block's outcome
fetch_papers(resp) ==
  LET body == TryBody(resp) IN
  IF body.raised
  THEN [body |-> body] @@ ExceptHandler(body)
  ELSE [body |-> body, propagates |-> FALSE, ret |-> body.filtered_papers,
        out |-> <<>>]

\* ------------------------------------------------------------- generate_html
\* {{ value }} in the template: str(value), autoescape being off by default;
\* None shows as "None"
ToText(v) == IF v.k = "null" THEN <<78, 111, 110, 101>> ELSE v.s

\* str(datetime.date.today()), day d of May 2024 (d < 10): "2024-05-0d"
DateText(d) == <<50, 48, 50, 52, 45, 48, 53, 45, 48, 48 + d>>

\* The literal stretches of html_template, as code points.
\* line 67 up to {{ today }} on line 80
T_HEAD ==
  <<
    10, 32, 32, 32, 32, 60, 33, 68, 79, 67, 84, 89, 80, 69, 32, 104, 116, 109,
    108, 62, 10, 32, 32, 32, 32, 60, 104, 116, 109, 108, 32, 108, 97, 110,
    103, 61, 34, 122, 104, 45, 67, 78, 34, 62, 10, 32, 32, 32, 32, 60, 104,
    101, 97, 100, 62, 10, 32, 32, 32, 32, 32, 32, 32, 32, 60, 109, 101, 116,
    97, 32, 99, 104, 97, 114, 115, 101, 116, 61, 34, 85, 84, 70, 45, 56, 34,
    62, 10, 32, 32, 32, 32, 32, 32, 32, 32, 60, 109, 101, 116, 97, 32, 110,
    97, 109, 101, 61, 34, 118, 105, 101, 119, 112, 111, 114, 116, 34, 32, 99,
    111, 110, 116, 101, 110, 116, 61, 34, 119, 105, 100, 116, 104, 61, 100,
    101, 118, 105, 99, 101, 45, 119, 105, 100, 116, 104, 44, 32, 105, 110,
    105, 116, 105, 97, 108, 45, 115, 99, 97, 108, 101, 61, 49, 46, 48, 34, 62,
    10, 32, 32, 32, 32, 32, 32, 32, 32, 60, 116, 105, 116, 108, 101, 62,
    24494, 27969, 25511, 27599, 26085, 31934, 36873, 32, 40, 84, 111, 112, 32,
    74, 111, 117, 114, 110, 97, 108, 115, 41, 60, 47, 116, 105, 116, 108, 101,
    62, 10, 32, 32, 32, 32, 32, 32, 32, 32, 60, 115, 99, 114, 105, 112, 116,
    32, 115, 114, 99, 61, 34, 104, 116, 116, 112, 115, 58, 47, 47, 99, 100,
    110, 46, 116, 97, 105, 108, 119, 105, 110, 100, 99, 115, 115, 46, 99, 111,
    109, 34, 62, 60, 47, 115, 99, 114, 105, 112, 116, 62, 10, 32, 32, 32, 32,
    60, 47, 104, 101, 97, 100, 62, 10, 32, 32, 32, 32, 60, 98, 111, 100, 121,
    32, 99, 108, 97, 115, 115, 61, 34, 98, 103, 45, 103, 114, 97, 121, 45, 53,
    48, 32, 116, 101, 120, 116, 45, 103, 114, 97, 121, 45, 56, 48, 48, 34, 62,
    10, 32, 32, 32, 32, 32, 32, 32, 32, 60, 100, 105, 118, 32, 99, 108, 97,
    115, 115, 61, 34, 109, 97, 120, 45, 119, 45, 51, 120, 108, 32, 109, 120,
    45, 97, 117, 116, 111, 32, 112, 121, 45, 49, 48, 32, 112, 120, 45, 52, 34,
    62, 10, 32, 32, 32, 32, 32, 32, 32, 32, 32, 32, 32, 32, 60, 104, 101, 97,
    100, 101, 114, 32, 99, 108, 97, 115, 115, 61, 34, 109, 98, 45, 49, 48, 32,
    116, 101, 120, 116, 45, 99, 101, 110, 116, 101, 114, 34, 62, 10, 32, 32,
    32, 32, 32, 32, 32, 32, 32, 32, 32, 32, 32, 32, 32, 32, 60, 104, 49, 32,
    99, 108, 97, 115, 115, 61, 34, 116, 101, 120, 116, 45, 51, 120, 108, 32,
    102, 111, 110, 116, 45, 98, 111, 108, 100, 32, 116, 101, 120, 116, 45, 98,
    108, 117, 101, 45, 56, 48, 48, 32, 109, 98, 45, 50, 34, 62, 129516, 32,
    68, 97, 105, 108, 121, 32, 77, 105, 99, 114, 111, 102, 108, 117, 105, 100,
    105, 99, 115, 32, 80, 105, 99, 107, 115, 60, 47, 104, 49, 62, 10, 32, 32,
    32, 32, 32, 32, 32, 32, 32, 32, 32, 32, 32, 32, 32, 32, 60, 112, 32, 99,
    108, 97, 115, 115, 61, 34, 116, 101, 120, 116, 45, 115, 109, 32, 116, 101,
    120, 116, 45, 103, 114, 97, 121, 45, 53, 48, 48, 34, 62, 83, 111, 117,
    114, 99, 101, 115, 58, 32, 78, 97, 116, 117, 114, 101, 44, 32, 83, 99,
    105, 101, 110, 99, 101, 44, 32, 80, 78, 65, 83, 32, 124, 32, 85, 112, 100,
    97, 116, 101, 100, 58, 32
  >>

\* from {{ today }} to {% if papers %} on line 83
T_HEAD_END ==
  <<
    60, 47, 112, 62, 10, 32, 32, 32, 32, 32, 32, 32, 32, 32, 32, 32, 32, 60,
    47, 104, 101, 97, 100, 101, 114, 62, 10, 10, 32, 32, 32, 32, 32, 32, 32,
    32, 32, 32, 32, 32
  >>

\* from {% if papers %} to {% for %} on line 85
T_LIST_OPEN ==
  <<
    10, 32, 32, 32, 32, 32, 32, 32, 32, 32, 32, 32, 32, 32, 32, 32, 32, 60,
    100, 105, 118, 32, 99, 108, 97, 115, 115, 61, 34, 115, 112, 97, 99, 101,
    45, 121, 45, 54, 34, 62, 10, 32, 32, 32, 32, 32, 32, 32, 32, 32, 32, 32,
    32, 32, 32, 32, 32
  >>

\* from {% for %} to {{ paper.journal }} on line 88
T_CARD_OPEN ==
  <<
    10, 32, 32, 32, 32, 32, 32, 32, 32, 32, 32, 32, 32, 32, 32, 32, 32, 32,
    32, 32, 32, 60, 100, 105, 118, 32, 99, 108, 97, 115, 115, 61, 34, 98, 103,
    45, 119, 104, 105, 116, 101, 32, 112, 45, 54, 32, 114, 111, 117, 110, 100,
    101, 100, 45, 108, 103, 32, 115, 104, 97, 100, 111, 119, 45, 109, 100, 32,
    98, 111, 114, 100, 101, 114, 45, 108, 45, 52, 32, 98, 111, 114, 100, 101,
    114, 45, 98, 108, 117, 101, 45, 53, 48, 48, 32, 104, 111, 118, 101, 114,
    58, 115, 104, 97, 100, 111, 119, 45, 108, 103, 32, 116, 114, 97, 110, 115,
    105, 116, 105, 111, 110, 34, 62, 10, 32, 32, 32, 32, 32, 32, 32, 32, 32,
    32, 32, 32, 32, 32, 32, 32, 32, 32, 32, 32, 32, 32, 32, 32, 60, 100, 105,
    118, 32, 99, 108, 97, 115, 115, 61, 34, 102, 108, 101, 120, 32, 106, 117,
    115, 116, 105, 102, 121, 45, 98, 101, 116, 119, 101, 101, 110, 32, 105,
    116, 101, 109, 115, 45, 115, 116, 97, 114, 116, 32, 109, 98, 45, 50, 34,
    62, 10, 32, 32, 32, 32, 32, 32, 32, 32, 32, 32, 32, 32, 32, 32, 32, 32,
    32, 32, 32, 32, 32, 32, 32, 32, 32, 32, 32, 32, 60, 115, 112, 97, 110, 32,
    99, 108, 97, 115, 115, 61, 34, 98, 103, 45, 98, 108, 117, 101, 45, 49, 48,
    48, 32, 116, 101, 120, 116, 45, 98, 108, 117, 101, 45, 56, 48, 48, 32,
    116, 101, 120, 116, 45, 120, 115, 32, 102, 111, 110, 116, 45, 115, 101,
    109, 105, 98, 111, 108, 100, 32, 112, 120, 45, 50, 46, 53, 32, 112, 121,
    45, 48, 46, 53, 32, 114, 111, 117, 110, 100, 101, 100, 34, 62
  >>

\* from the journal to {{ paper.date }} on line 89
T_JOURNAL_END ==
  <<
    60, 47, 115, 112, 97, 110, 62, 10, 32, 32, 32, 32, 32, 32, 32, 32, 32, 32,
    32, 32, 32, 32, 32, 32, 32, 32, 32, 32, 32, 32, 32, 32, 32, 32, 32, 32,
    60, 115, 112, 97, 110, 32, 99, 108, 97, 115, 115, 61, 34, 116, 101, 120,
    116, 45, 103, 114, 97, 121, 45, 52, 48, 48, 32, 116, 101, 120, 116, 45,
    115, 109, 34, 62
  >>

\* from the date to the first {{ paper.link }} on line 92
T_DATE_END ==
  <<
    60, 47, 115, 112, 97, 110, 62, 10, 32, 32, 32, 32, 32, 32, 32, 32, 32, 32,
    32, 32, 32, 32, 32, 32, 32, 32, 32, 32, 32, 32, 32, 32, 60, 47, 100, 105,
    118, 62, 10, 32, 32, 32, 32, 32, 32, 32, 32, 32, 32, 32, 32, 32, 32, 32,
    32, 32, 32, 32, 32, 32, 32, 32, 32, 60, 104, 50, 32, 99, 108, 97, 115,
    115, 61, 34, 116, 101, 120, 116, 45, 120, 108, 32, 102, 111, 110, 116, 45,
    98, 111, 108, 100, 32, 109, 98, 45, 51, 34, 62, 10, 32, 32, 32, 32, 32,
    32, 32, 32, 32, 32, 32, 32, 32, 32, 32, 32, 32, 32, 32, 32, 32, 32, 32,
    32, 32, 32, 32, 32, 60, 97, 32, 104, 114, 101, 102, 61, 34
  >>

\* line 92 between the link and {{ paper.title }}
T_HREF_END ==
  <<
    34, 32, 116, 97, 114, 103, 101, 116, 61, 34, 95, 98, 108, 97, 110, 107,
    34, 32, 99, 108, 97, 115, 115, 61, 34, 104, 111, 118, 101, 114, 58, 116,
    101, 120, 116, 45, 98, 108, 117, 101, 45, 54, 48, 48, 32, 104, 111, 118,
    101, 114, 58, 117, 110, 100, 101, 114, 108, 105, 110, 101, 34, 62
  >>

\* from the title to the second {{ paper.link }} on line 94
T_TITLE_END ==
  <<
    60, 47, 97, 62, 10, 32, 32, 32, 32, 32, 32, 32, 32, 32, 32, 32, 32, 32,
    32, 32, 32, 32, 32, 32, 32, 32, 32, 32, 32, 60, 47, 104, 50, 62, 10, 32,
    32, 32, 32, 32, 32, 32, 32, 32, 32, 32, 32, 32, 32, 32, 32, 32, 32, 32,
    32, 32, 32, 32, 32, 60, 97, 32, 104, 114, 101, 102, 61, 34
  >>

\* from that link to {% endfor %} on line 96
T_CARD_CLOSE ==
  <<
    34, 32, 116, 97, 114, 103, 101, 116, 61, 34, 95, 98, 108, 97, 110, 107,
    34, 32, 99, 108, 97, 115, 115, 61, 34, 116, 101, 120, 116, 45, 115, 109,
    32, 116, 101, 120, 116, 45, 98, 108, 117, 101, 45, 53, 48, 48, 32, 104,
    111, 118, 101, 114, 58, 116, 101, 120, 116, 45, 98, 108, 117, 101, 45, 55,
    48, 48, 32, 102, 111, 110, 116, 45, 109, 101, 100, 105, 117, 109, 34, 62,
    82, 101, 97, 100, 32, 80, 97, 112, 101, 114, 32, 38, 114, 97, 114, 114,
    59, 60, 47, 97, 62, 10, 32, 32, 32, 32, 32, 32, 32, 32, 32, 32, 32, 32,
    32, 32, 32, 32, 32, 32, 32, 32, 60, 47, 100, 105, 118, 62, 10, 32, 32, 32,
    32, 32, 32, 32, 32, 32, 32, 32, 32, 32, 32, 32, 32
  >>

\* from {% endfor %} to {% else %} on line 98
T_LIST_CLOSE ==
  <<
    10, 32, 32, 32, 32, 32, 32, 32, 32, 32, 32, 32, 32, 32, 32, 32, 32, 60,
    47, 100, 105, 118, 62, 10, 32, 32, 32, 32, 32, 32, 32, 32, 32, 32, 32, 32
  >>

\* from {% else %} to {% endif %} on line 102
T_PLACEHOLDER ==
  <<
    10, 32, 32, 32, 32, 32, 32, 32, 32, 32, 32, 32, 32, 32, 32, 32, 32, 60,
    100, 105, 118, 32, 99, 108, 97, 115, 115, 61, 34, 116, 101, 120, 116, 45,
    99, 101, 110, 116, 101, 114, 32, 112, 121, 45, 50, 48, 32, 98, 103, 45,
    119, 104, 105, 116, 101, 32, 114, 111, 117, 110, 100, 101, 100, 45, 108,
    103, 32, 115, 104, 97, 100, 111, 119, 34, 62, 10, 32, 32, 32, 32, 32, 32,
    32, 32, 32, 32, 32, 32, 32, 32, 32, 32, 32, 32, 32, 32, 60, 112, 32, 99,
    108, 97, 115, 115, 61, 34, 116, 101, 120, 116, 45, 103, 114, 97, 121, 45,
    53, 48, 48, 34, 62, 20170, 22825, 36825, 20123, 26399, 21002, 27809,
    26377, 24494, 27969, 25511, 30456, 20851, 30340, 26032, 35770, 25991,
    21457, 24067, 12290, 60, 47, 112, 62, 10, 32, 32, 32, 32, 32, 32, 32, 32,
    32, 32, 32, 32, 32, 32, 32, 32, 60, 47, 100, 105, 118, 62, 10, 32, 32, 32,
    32, 32, 32, 32, 32, 32, 32, 32, 32
  >>

\* from {% endif %} to the end of the template, line 110
T_FOOTER ==
  <<
    10, 10, 32, 32, 32, 32, 32, 32, 32, 32, 32, 32, 32, 32, 60, 102, 111, 111,
    116, 101, 114, 32, 99, 108, 97, 115, 115, 61, 34, 109, 116, 45, 49, 48,
    32, 116, 101, 120, 116, 45, 99, 101, 110, 116, 101, 114, 32, 116, 101,
    120, 116, 45, 120, 115, 32, 116, 101, 120, 116, 45, 103, 114, 97, 121, 45,
    52, 48, 48, 34, 62, 10, 32, 32, 32, 32, 32, 32, 32, 32, 32, 32, 32, 32,
    32, 32, 32, 32, 80, 111, 119, 101, 114, 101, 100, 32, 98, 121, 32, 79,
    112, 101, 110, 65, 108, 101, 120, 32, 65, 80, 73, 32, 38, 32, 71, 105,
    116, 72, 117, 98, 32, 65, 99, 116, 105, 111, 110, 115, 10, 32, 32, 32, 32,
    32, 32, 32, 32, 32, 32, 32, 32, 60, 47, 102, 111, 111, 116, 101, 114, 62,
    10, 32, 32, 32, 32, 32, 32, 32, 32, 60, 47, 100, 105, 118, 62, 10, 32, 32,
    32, 32, 60, 47, 98, 111, 100, 121, 62, 10, 32, 32, 32, 32, 60, 47, 104,
    116, 109, 108, 62, 10, 32, 32, 32, 32
  >>

\* one pass of {% for paper in papers %}
CardText(paper) ==
  T_CARD_OPEN \o ToText(paper.journal) \o T_JOURNAL_END
    \o ToText(paper.date) \o T_DATE_END
    \o ToText(paper.link) \o T_HREF_END
    \o ToText(paper.title) \o T_TITLE_END
    \o ToText(paper.link) \o T_CARD_CLOSE

\* the for loop of the template, from paper i on
RECURSIVE CardsFrom(_, _)
CardsFrom(papers, i) ==
  IF i > Len(papers) THEN <<>>
  ELSE CardText(papers[i]) \o CardsFrom(papers, i + 1)

\* fault variant: the card list is rendered for an empty list too
IfPapersAlways(papers) == TRUE

\* {% if papers %}: a list is true when it is not empty
IfPapers(papers) == papers # <<>>

\* template.render(papers=papers, today=datetime.date.today())
Render(papers, d) ==
  T_HEAD \o DateText(d) \o T_HEAD_END
    \o (IF IfPapers(papers)
        THEN T_LIST_OPEN \o CardsFrom(papers, 1) \o T_LIST_CLOSE
        ELSE T_PLACEHOLDER)
    \o T_FOOTER

\* ------------------------------------------------------------- file object
\* The object open() returns has two layers over the raw file: the text
\* layer keeps encoded text pending until CHUNK_SIZE bytes have gathered,
\* the binary layer under it has a buffer of BUFFER_SIZE bytes (the block
\* size of the file system).
CHUNK_SIZE == 8192

BUFFER_SIZE == 4096

\* the size the file system lets index.html grow to (a file size limit, or
\* the space left on the device)
Unlimited == [limited |-> FALSE, size |-> 0]
Limited(n) == [limited |-> TRUE, size |-> n]

FileLimits == {Unlimited, Limited(0), Limited(1000), Limited(5000)}

\* the file object f: whether it is open, the position of its raw file, the
\* bytes pending in the text layer and those in the binary layer's buffer
FileObject(open, pos, pending, buffer) ==
  [open |-> open, pos |-> pos, pending |-> pending, buffer |-> buffer]

Closed == FileObject(FALSE, 0, <<>>, <<>>)

\* fault variant: the file is opened without being cut (mode "r+")
OpenKeep(content) == content

\* open("index.html", "w"): the file is cut to length 0; the new file
\* object's position is 0
OpenTrunc(content) == <<>>

\* fault variant: the write lands at the end of the file (mode "a")
WriteAppend(content, off, data) == content \o data

\* a write of data at position off of a file holding content: bytes under
\* the written range are replaced, bytes after it are kept
WriteAt(content, off, data) ==
  SubSeq(content, 1, off) \o data
    \o SubSeq(content, off + Len(data) + 1, Len(content))

\* how many of n bytes written at position pos the file system takes
Accepted(lim, pos, n) ==
  IF ~lim.limited THEN n
  ELSE IF lim.size <= pos THEN 0
  ELSE IF lim.size - pos < n THEN lim.size - pos
  ELSE n

\* one write() on the raw file: the bytes that fit reach the file at the
\* position, and OSError is raised when none fits
RawWrite(content, pos, data, lim) ==
  LET n == Accepted(lim, pos, Len(data)) IN
  [file |-> WriteAt(content, pos, SubSeq(data, 1, n)), n |-> n,
   raised |-> n = 0]

\* write(data) on the binary layer, its buffer being empty: as long as more
\* than BUFFER_SIZE bytes remain they are written to the raw file, what
\* remains is kept in the buffer
RECURSIVE BufferedWrite(_, _, _, _)
BufferedWrite(content, pos, data, lim) ==
  IF Len(data) <= BUFFER_SIZE
  THEN [file |-> content, pos |-> pos, buffer |-> data, raised |-> FALSE]
  ELSE LET w == RawWrite(content, pos, data, lim) IN
       IF w.raised
       THEN [file |-> content, pos |-> pos, buffer |-> <<>>, raised |-> TRUE]
       ELSE BufferedWrite(w.file, pos + w.n,
                          SubSeq(data, w.n + 1, Len(data)), lim)

\* flush() on the binary layer: the buffer is written to the raw file until
\* it is empty
RECURSIVE BufferedFlush(_, _, _, _)
BufferedFlush(content, pos, buffer, lim) ==
  IF buffer = <<>> THEN [file |-> content, raised |-> FALSE]
  ELSE LET w == RawWrite(content, pos, buffer, lim) IN
       IF w.raised THEN [file |-> content, raised |-> TRUE]
       ELSE BufferedFlush(w.file, pos + w.n,
                          SubSeq(buffer, w.n + 1, Len(buffer)), lim)

\* f.write(text) on a file object just opened: the text is encoded; fewer
\* than CHUNK_SIZE bytes stay pending in the text layer, otherwise they are
\* passed to the binary layer
TextWrite(content, f, text, lim) ==
  IF EncodeRaises(text)
  THEN [file |-> content, f |-> f, raised |-> TRUE]
  ELSE LET b == Encode(text) IN
       IF Len(b) < CHUNK_SIZE
       THEN [file |-> content,
             f |-> FileObject(TRUE, f.pos, b, f.buffer),
             raised |-> FALSE]
       ELSE LET w == BufferedWrite(content, f.pos, b, lim) IN
            [file |-> w.file,
             f |-> FileObject(TRUE, w.pos, <<>>, w.buffer),
             raised |-> w.raised]

\* f.close() at the end of the with block: the pending bytes are passed to
\* the binary layer, whose buffer is then flushed
TextClose(content, f, lim) ==
  LET w == IF f.pending = <<>>
           THEN [file |-> content, pos |-> f.pos, buffer |-> f.buffer,
                 raised |-> FALSE]
           ELSE BufferedWrite(content, f.pos, f.pending, lim)
  IN IF w.raised THEN [file |-> w.file, raised |-> TRUE]
     ELSE BufferedFlush(w.file, w.pos, w.buffer, lim)

\* ------------------------------------------------------------- sample inputs
\* "Nature Communications"
NatureCommunications == <<78, 97, 116, 117, 114, 101, 32, 67, 111, 109, 109,
  117, 110, 105, 99, 97, 116, 105, 111, 110, 115>>

\* "Super Nature Journal"
SuperNatureJournal == <<83, 117, 112, 101, 114, 32, 78, 97, 116, 117, 114,
  101, 32, 74, 111, 117, 114, 110, 97, 108>>

\* "Lab on a Chip"
LabOnAChip == <<76, 97, 98, 32, 111, 110, 32, 97, 32, 67, 104, 105, 112>>

\* "2024-05-01"
SampleDate == Str(<<50, 48, 50, 52, 45, 48, 53, 45, 48, 49>>)

\* the elements every results array of the model is drawn from
CoreItems ==
  << \* 1: allow-listed, every field present; title "Chip", doi "d/x"
     Item(LocDict(SourceDict(Str(NatureCommunications), TRUE)),
          Str(<<67, 104, 105, 112>>), SampleDate, Str(<<100, 47, 120>>)),
     \* 2: allow-listed through an inner substring; null title, doi "d/y"
     Item(LocDict(SourceDict(Str(SuperNatureJournal), FALSE)),
          Null, SampleDate, Str(<<100, 47, 121>>)),
     \* 3: primary_location is null; title "B"
     Item(LocNull, Str(<<66>>), SampleDate, Absent),
     \* 4: no primary_location key; title "A"
     Item(LocAbsent, Str(<<65>>), SampleDate, Absent)
  >>

\* elements that come in arrays of one element only
OtherItems ==
  << \* 5: allow-listed through case folding only; no title, no doi
     Item(LocDict(SourceDict(Str(Lower(NatureCommunications)), TRUE)),
          Absent, SampleDate, Absent),
     \* 6: not allow-listed; title "LoC", doi "d/z"
     Item(LocDict(SourceDict(Str(LabOnAChip), TRUE)),
          Str(<<76, 111, 67>>), SampleDate, Str(<<100, 47, 122>>)),
     \* 7: primary_location.source is null; title "C"
     Item(LocDict(SourceNull), Str(<<67>>), SampleDate, Absent),
     \* 8: source.display_name is null; title "D"
     Item(LocDict(SourceDict(Null, TRUE)), Str(<<68>>), SampleDate, Absent),
     \* 9: source without a display_name key; title "E"
     Item(LocDict(SourceDict(Absent, TRUE)), Str(<<69>>), SampleDate, Absent),
     \* 10: allow-listed; the title is "F" and a lone surrogate (the JSON
     \* string "F\ud83e"), which UTF-8 cannot encode
     Item(LocDict(SourceDict(Str(NatureCommunications), TRUE)),
          Str(<<70, 55358>>), SampleDate, Absent)
  >>

SampleItems == CoreItems \o OtherItems

\* every sequence over 1..m of length at most n
RECURSIVE IndexSeqs(_, _)
IndexSeqs(m, n) ==
  IF n = 0 THEN {<<>>}
  ELSE LET shorter == IndexSeqs(m, n - 1) IN
       shorter \cup {Append(q, i) : q \in shorter, i \in 1..m}

ItemsOf(q) == [j \in 1..Len(q) |-> SampleItems[q[j]]]

\* the one long results array: LongResults times the first sample item
LongItems == ItemsOf([j \in 1..LongResults |-> 1])

\* the API exchanges the model draws from
Responses ==
  {Response("neterr", "absent", <<>>), Response("badjson", "absent", <<>>),
   Response("notdict", "absent", <<>>), Response("dict", "absent", <<>>),
   Response("dict", "null", <<>>)}
    \cup {Response("dict", "list", <<SampleItems[i]>>) :
            i \in 1..Len(SampleItems)}
    \cup {Response("dict", "list", ItemsOf(q)) :
            q \in IndexSeqs(Len(CoreItems), MaxResults)}
    \cup {Response("dict", "list", LongItems)}

NoResponse == Response("none", "absent", <<>>)
NoBody == [raised |-> FALSE, filtered_papers |-> <<>>]

Days == 1..MaxDay

\* ------------------------------------------------------------- state
Procs == {1, 2}

VARIABLES
  pc,            \* where the run is in the __main__ block
  stdout,        \* lines printed by the run so far
  resp,          \* the API exchange of the fetch_papers call just returned
  body,          \* how the run's fetch_papers try block ended
  papers,        \* main's papers
  html_content,  \* generate_html's rendered document
  f,             \* generate_html's file object
  limit,         \* the size index.html may grow to while f is open
  old_longer,    \* index.html was longer, when the run opened it, than the
                 \* run's document is
  gen_raised,    \* whether an exception left generate_html in this run
  exitcode,      \* -1 while running, then the process exit code
  file,          \* content of index.html
  rpc,           \* racing instances: position of each
  rdoc,          \* racing instances: html_content of each
  rf,            \* racing instances: file object of each
  rtrace         \* racing instances: file operations in the order they ran

mainvars == <<pc, stdout, resp, body, papers, html_content, f, limit,
              old_longer, gen_raised, exitcode>>
racevars == <<rpc, rdoc, rf, rtrace>>
vars == <<pc, stdout, resp, body, papers, html_content, f, limit, old_longer,
          gen_raised, exitcode, file, rpc, rdoc, rf, rtrace>>

\* ------------------------------------------------------------- one instance
Init ==
  /\ pc = "start"
  /\ stdout = <<>>
  /\ resp = NoResponse
  /\ body = NoBody
  /\ papers = <<>>
  /\ html_content = <<>>
  /\ f = Closed
  /\ limit = Unlimited
  /\ old_longer = FALSE
  /\ gen_raised = FALSE
  /\ exitcode = -1
  /\ file = <<>>
  /\ rpc = [p \in Procs |-> "idle"]
  /\ rdoc = [p \in Procs |-> <<>>]
  /\ rf = [p \in Procs |-> Closed]
  /\ rtrace = <<>>

\* print("开始抓取论文...")
Start ==
  /\ pc = "start"
  /\ stdout' = Append(stdout, Line("start", 0))
  /\ pc' = "fetch"
  /\ UNCHANGED <<resp, body, papers, html_content, f, limit, old_longer,
                 gen_raised, exitcode, file>>
  /\ UNCHANGED racevars

\* papers = fetch_papers()
CallFetch ==
  /\ pc = "fetch"
  /\ \E r \in Responses :
       LET fp == fetch_papers(r) IN
       /\ resp' = r
       /\ body' = fp.body
       /\ stdout' = stdout \o fp.out
       /\ IF fp.propagates
          THEN /\ pc' = "crashed"
               /\ exitcode' = 1
               /\ papers' = papers
          ELSE /\ pc' = "count"
               /\ exitcode' = exitcode
               /\ papers' = fp.ret
  /\ UNCHANGED <<html_content, f, limit, old_longer, gen_raised, file>>
  /\ UNCHANGED racevars

\* print(f"找到 {len(papers)} 篇相关论文。"); fetch_papers' locals are gone
PrintCount ==
  /\ pc = "count"
  /\ stdout' = Append(stdout, Line("count", Len(papers)))
  /\ pc' = "render"
  /\ resp' = NoResponse
  /\ UNCHANGED <<body, papers, html_content, f, limit, old_longer, gen_raised,
                 exitcode, file>>
  /\ UNCHANGED racevars

\* fault variant: __main__ swallows the exception and goes on
OnGenerateExceptionCaught == "done"

\* nothing in generate_html or __main__ catches: the traceback ends the run
OnGenerateException == "crashed"

\* an exception leaves generate_html; the with block has closed the file
\* object, and what it still held is lost
GenerateRaises ==
  /\ pc' = OnGenerateException
  /\ exitcode' = IF OnGenerateException = "crashed" THEN 1 ELSE exitcode
  /\ f' = Closed
  /\ limit' = Unlimited
  /\ gen_raised' = TRUE

\* template.render(papers=papers, today=datetime.date.today())
GenRender ==
  /\ pc = "render"
  /\ \/ /\ \E d \in Days : html_content' = Render(papers, d)
        /\ pc' = "open"
        /\ UNCHANGED <<f, limit, gen_raised, exitcode>>
     \/ /\ GenerateRaises
        /\ UNCHANGED html_content
  /\ UNCHANGED <<stdout, resp, body, papers, old_longer, file>>
  /\ UNCHANGED racevars

\* open("index.html", "w", encoding="utf-8"); from here on the file system
\* may refuse to let the file grow beyond some size
GenOpen ==
  /\ pc = "open"
  /\ \/ /\ file' = OpenTrunc(file)
        /\ old_longer' = (Len(file) > Len(Encode(html_content)))
        /\ f' = FileObject(TRUE, 0, <<>>, <<>>)
        /\ limit' \in FileLimits
        /\ pc' = "write"
        /\ UNCHANGED <<gen_raised, exitcode>>
     \/ /\ GenerateRaises
        /\ UNCHANGED <<file, old_longer>>
  /\ UNCHANGED <<stdout, resp, body, papers, html_content>>
  /\ UNCHANGED racevars

\* f.write(html_content): raises when the text cannot be encoded or when
\* the file system refuses a write of the binary layer
GenWrite ==
  /\ pc = "write"
  /\ LET w == TextWrite(file, f, html_content, limit) IN
       /\ file' = w.file
       /\ IF w.raised
          THEN GenerateRaises
          ELSE /\ f' = w.f
               /\ pc' = "close"
               /\ UNCHANGED <<limit, gen_raised, exitcode>>
  /\ UNCHANGED <<stdout, resp, body, papers, html_content, old_longer>>
  /\ UNCHANGED racevars

\* end of the with block: f.close() writes what the file object holds and
\* closes the file; raises when the file system refuses a write
GenClose ==
  /\ pc = "close"
  /\ LET c == TextClose(file, f, limit) IN
       /\ file' = c.file
       /\ IF c.raised
          THEN GenerateRaises
          ELSE /\ f' = Closed
               /\ limit' = Unlimited
               /\ pc' = "done"
               /\ UNCHANGED <<gen_raised, exitcode>>
  /\ UNCHANGED <<stdout, resp, body, papers, html_content, old_longer>>
  /\ UNCHANGED racevars

\* print("HTML 生成完毕。") and the end of the script
PrintDone ==
  /\ pc = "done"
  /\ stdout' = Append(stdout, Line("done", 0))
  /\ pc' = "exited"
  /\ exitcode' = 0
  /\ UNCHANGED <<resp, body, papers, html_content, f, limit, old_longer,
                 gen_raised, file>>
  /\ UNCHANGED racevars

\* the next run of the script: a new process, the same index.html
NewRun ==
  /\ pc \in {"exited", "crashed"}
  /\ pc' = "start"
  /\ stdout' = <<>>
  /\ resp' = NoResponse
  /\ body' = NoBody
  /\ papers' = <<>>
  /\ html_content' = <<>>
  /\ f' = Closed
  /\ limit' = Unlimited
  /\ old_longer' = FALSE
  /\ gen_raised' = FALSE
  /\ exitcode' = -1
  /\ UNCHANGED file
  /\ UNCHANGED racevars

Next ==
  \/ Start
  \/ CallFetch
  \/ PrintCount
  \/ GenRender
  \/ GenOpen
  \/ GenWrite
  \/ GenClose
  \/ PrintDone
  \/ NewRun

Spec == Init /\ [][Next]_vars

\* ------------------------------------------------------------- two instances
\* Two runs of the script at once.  Each has fetched and rendered; what is
\* left of each is the with block of generate_html: open, write, close.
\* Their lists are drawn from the two allow-listed core items.
RacePaperLists ==
  {fetch_papers(Response("dict", "list", ItemsOf(q))).ret :
     q \in IndexSeqs(2, MaxPapers)}

RaceDocs ==
  {Render(ps, 1) : ps \in RacePaperLists}
    \cup {Render(fetch_papers(Response("dict", "list", LongItems)).ret, 1)}

RaceInit ==
  /\ pc = "none"
  /\ stdout = <<>>
  /\ resp = NoResponse
  /\ body = NoBody
  /\ papers = <<>>
  /\ html_content = <<>>
  /\ f = Closed
  /\ limit = Unlimited
  /\ old_longer = FALSE
  /\ gen_raised = FALSE
  /\ exitcode = -1
  /\ file = <<>>
  /\ rpc = [p \in Procs |-> "open"]
  /\ rdoc \in [Procs -> RaceDocs]
  /\ rf = [p \in Procs |-> Closed]
  /\ rtrace = <<>>

\* an entry of rtrace: landed says whether the step wrote p's document to
\* the file
Op(p, what, landed) == [p |-> p, op |-> what, landed |-> landed]

\* open("index.html", "w", encoding="utf-8") in instance p
RaceOpen(p) ==
  /\ rpc[p] = "open"
  /\ file' = OpenTrunc(file)
  /\ rf' = [rf EXCEPT ![p] = FileObject(TRUE, 0, <<>>, <<>>)]
  /\ rpc' = [rpc EXCEPT ![p] = "write"]
  /\ rtrace' = Append(rtrace, Op(p, "open", FALSE))
  /\ UNCHANGED rdoc
  /\ UNCHANGED mainvars

\* f.write(html_content) in instance p, on its own file object
RaceWrite(p) ==
  /\ rpc[p] = "write"
  /\ LET w == TextWrite(file, rf[p], rdoc[p], Unlimited) IN
       /\ file' = w.file
       /\ rf' = [rf EXCEPT ![p] = w.f]
       /\ rtrace' = Append(rtrace, Op(p, "write", w.f.pos > rf[p].pos))
  /\ rpc' = [rpc EXCEPT ![p] = "close"]
  /\ UNCHANGED rdoc
  /\ UNCHANGED mainvars

\* end of the with block in instance p
RaceClose(p) ==
  /\ rpc[p] = "close"
  /\ file' = TextClose(file, rf[p], Unlimited).file
  /\ rf' = [rf EXCEPT ![p] = Closed]
  /\ rpc' = [rpc EXCEPT ![p] = "done"]
  /\ rtrace' = Append(rtrace,
                      Op(p, "close",
                         rf[p].pending # <<>> \/ rf[p].buffer # <<>>))
  /\ UNCHANGED rdoc
  /\ UNCHANGED mainvars

RaceNext ==
  \E p \in Procs :
    \/ RaceOpen(p)
    \/ RaceWrite(p)
    \/ RaceClose(p)

SpecRace == RaceInit /\ [][RaceNext]_vars

\* ------------------------------------------------------------- properties
\* the record carries a source descriptor: primary_location.source is a dict
CarriesSource(item) ==
  /\ item.k = "dict"
  /\ item.primary_location.k = "dict"
  /\ item.primary_location.source.k = "dict"

\* the record's journal display name, lower-cased, contains a lower-cased
\* entry of TARGET_JOURNALS
AllowListed(item) ==
  /\ CarriesSource(item)
  /\ item.primary_location.source.display_name.k = "str"
  /\ \E i \in 1..Len(TARGET_JOURNALS) :
       IsSubstring(Lower(TARGET_JOURNALS[i]),
                   Lower(item.primary_location.source.display_name.s))

\* the Filtered Record of an allow-listed record
FilteredRecord(item) ==
  [title |-> GetOrNone(item.title),
   journal |-> item.primary_location.source.display_name,
   date |-> GetOrNone(item.publication_date),
   link |-> GetOrNone(item.doi),
   abstract |-> GetOrNone(item.abstract_inverted_index)]

\* the Filtered Records of the allow-listed records of an array, in order
RECURSIVE FilterResult(_)
FilterResult(items) ==
  IF items = <<>> THEN <<>>
  ELSE IF AllowListed(Head(items))
       THEN <<FilteredRecord(Head(items))>> \o FilterResult(Tail(items))
       ELSE FilterResult(Tail(items))

\* fetch_papers has just returned a call whose response held a results array
ReturnedFromArray ==
  pc = "count" /\ resp.kind = "dict" /\ resp.rk = "list"

InList(rec, list) == \E j \in 1..Len(list) : list[j] = rec

\* C1: for every response and every record of its results array that carries
\* a source descriptor, the returned list holds the record's Filtered Record
\* if and only if the record is allow-listed.
C1_IncludedIffAllowListed ==
  ReturnedFromArray =>
    \A k \in 1..Len(resp.items) :
      CarriesSource(resp.items[k]) =>
        (InList(FilteredRecord(resp.items[k]), papers)
           <=> AllowListed(resp.items[k]))

\* C2: fetch_papers never raises to its caller, and when the request fails or
\* the body is not JSON it returns the empty list after printing one error
\* line.
C2_FetchNeverRaises ==
  resp # NoResponse =>
    /\ pc = "count"
    /\ resp.kind \in {"neterr", "badjson"} =>
         /\ papers = <<>>
         /\ stdout = << Line("start", 0), Line("error", 0) >>

C2_Witness ==
  /\ pc = "count"
  /\ resp.kind = "badjson"
  /\ papers = <<>>
  /\ stdout = << Line("start", 0), Line("error", 0) >>

\* the record has no primary_location.source: the source, or the
\* primary_location that would hold it, is absent or null
LacksSource(item) ==
  \/ item.primary_location.k \in {"absent", "null"}
  \/ item.primary_location.source.k \in {"absent", "null"}

RemoveAt(q, k) == SubSeq(q, 1, k - 1) \o SubSeq(q, k + 1, Len(q))

\* C3: a record without primary_location.source is left out and the returned
\* list is what the call returns for the array without that record.
C3_SourcelessRecordIgnored ==
  ReturnedFromArray =>
    \A k \in 1..Len(resp.items) :
      LacksSource(resp.items[k]) =>
        papers = fetch_papers(
                   Response("dict", "list", RemoveAt(resp.items, k))).ret

\* the bytes of doc from position i on start with mark
StartsAt(doc, i, mark) ==
  /\ i + Len(mark) - 1 <= Len(doc)
  /\ doc[i] = mark[1]
  /\ SubSeq(doc, i, i + Len(mark) - 1) = mark

\* the positions in a document at which a stretch of the template starts,
\* ascending
Positions(doc, mark) ==
  SelectSeq([i \in 1..Len(doc) |-> i], LAMBDA i : StartsAt(doc, i, mark))

\* the bytes between the mark that starts at a and position b
Between(doc, a, mark, b) == SubSeq(doc, a + Len(mark), b - 1)

\* what a page shows for a value of a record
Shown(v) == Encode(ToText(v))

\* the document holds one card per paper, in the papers' order, card i
\* showing the four values of paper i, and the placeholder exactly when
\* there is no paper
OneCardPerPaper(doc, list) ==
  LET o == Positions(doc, Encode(T_CARD_OPEN))
      j == Positions(doc, Encode(T_JOURNAL_END))
      d == Positions(doc, Encode(T_DATE_END))
      h == Positions(doc, Encode(T_HREF_END))
      t == Positions(doc, Encode(T_TITLE_END))
      c == Positions(doc, Encode(T_CARD_CLOSE))
      e == Positions(doc, Encode(T_PLACEHOLDER))
  IN /\ \A q \in {o, j, d, h, t, c} : Len(q) = Len(list)
     /\ \A i \in 1..Len(list) :
          /\ o[i] < j[i] /\ j[i] < d[i] /\ d[i] < h[i] /\ h[i] < t[i]
          /\ t[i] < c[i]
          /\ Between(doc, o[i], T_CARD_OPEN, j[i]) = Shown(list[i].journal)
          /\ Between(doc, j[i], T_JOURNAL_END, d[i]) = Shown(list[i].date)
          /\ Between(doc, d[i], T_DATE_END, h[i]) = Shown(list[i].link)
          /\ Between(doc, h[i], T_HREF_END, t[i]) = Shown(list[i].title)
          /\ Between(doc, t[i], T_TITLE_END, c[i]) = Shown(list[i].link)
     /\ \A i \in 1..(Len(list) - 1) : c[i] < o[i + 1]
     /\ Len(e) = (IF Len(list) = 0 THEN 1 ELSE 0)

\* generate_html has written its document
Written == pc \in {"done", "exited"}

\* C4: the document generate_html(papers) writes holds exactly N cards, card
\* i showing journal, date, title and link of record i, and the placeholder
\* if and only if N = 0.
C4_OneCardPerRecord == Written => OneCardPerPaper(file, papers)

C4_Witness ==
  /\ Written
  /\ Len(papers) = 2
  /\ papers[1] = papers[2]
  /\ OneCardPerPaper(file, papers)

\* C5: once generate_html has returned, index.html holds exactly the
\* rendering of that call's list, whatever length it had before.
C5_FileIsRendering ==
  pc \in {"done", "exited"} =>
    /\ file = Encode(html_content)
    /\ \E d \in Days : file = Encode(Render(papers, d))

C5_Witness ==
  /\ pc = "exited"
  /\ old_longer
  /\ file = Encode(html_content)

HasLine(what) == \E i \in 1..Len(stdout) : stdout[i].line = what

\* C6: a run whose fetch failed prints exactly one error line, calls
\* generate_html with the empty list and, when generate_html does not throw,
\* prints start, error, count 0, completion in that order, leaves the
\* placeholder page in index.html and exits with code 0.
C6_FetchFailureRunContinues ==
  (body.raised /\ pc \in {"exited", "crashed"}) =>
    /\ Len(SelectSeq(stdout, LAMBDA l : l.line = "error")) = 1
    /\ papers = <<>>
    /\ ~gen_raised =>
         /\ stdout = << Line("start", 0), Line("error", 0), Line("count", 0),
                        Line("done", 0) >>
         /\ Len(Positions(file, Encode(T_PLACEHOLDER))) = 1
         /\ Len(Positions(file, Encode(T_CARD_OPEN))) = 0
         /\ \E d \in Days : file = Encode(Render(<<>>, d))
         /\ exitcode = 0

C6_Witness ==
  /\ body.raised
  /\ pc = "exited"
  /\ exitcode = 0
  /\ Len(Positions(file, Encode(T_PLACEHOLDER))) = 1
  /\ old_longer

\* C7: a record with a missing or malformed nested field is skipped alone:
\* the call still returns the Filtered Records of every allow-listed record
\* of the array.
C7_BadRecordSkippedAlone ==
  ReturnedFromArray => papers = FilterResult(resp.items)

\* C8: no partial results: when an exception is raised anywhere in the try
\* block the returned list is empty, otherwise it is the complete filter
\* result over the results array.
C8_NoPartialResults ==
  pc = "count" =>
    IF body.raised THEN papers = <<>>
    ELSE papers = FilterResult(resp.items)

C8_Witness ==
  /\ pc = "count"
  /\ body.raised
  /\ body.filtered_papers # <<>>
  /\ papers = <<>>

\* both racing instances have closed the file
BothDone == \A p \in Procs : rpc[p] = "done"

TracePos(p, what) ==
  CHOOSE i \in 1..Len(rtrace) : rtrace[i].p = p /\ rtrace[i].op = what

\* the step at which instance p's document reached the file: its f.write
\* for a document the text layer passes on at once, its close otherwise
Landed(p) ==
  CHOOSE i \in 1..Len(rtrace) : rtrace[i].p = p /\ rtrace[i].landed

\* instance p's document went to the file at its f.write
WroteThrough(p) == rtrace[Landed(p)].op = "write"

\* the instance whose document reached the file last, and the other one
LastWriter == CHOOSE p \in Procs : \A q \in Procs : Landed(q) <= Landed(p)

Other(p) == CHOOSE q \in Procs : q # p

\* the encoded document of instance p
DocBytes(p) == Encode(rdoc[p])

\* C9 as claimed: every interleaving ends with the file holding exactly the
\* complete document of one of the two instances (the last writer), never a
\* mix of both.
C9_LastWriterWins ==
  BothDone =>
    (file = DocBytes(LastWriter) \/ file = DocBytes(Other(LastWriter)))

\* the other instance's longer document reached the file after the last
\* writer's open
LongerWriteAfterOpen ==
  /\ TracePos(LastWriter, "open") < Landed(Other(LastWriter))
  /\ Len(DocBytes(Other(LastWriter))) > Len(DocBytes(LastWriter))

\* C9 amended: the file starts with the complete document of the instance
\* whose document reached the file last and is exactly that document, unless
\* the other instance's longer document reached the file after the last
\* writer's open: then the bytes of the other's document beyond the last
\* writer's length follow it.
C9_LastWriterThenTail ==
  BothDone =>
    file = IF LongerWriteAfterOpen
           THEN DocBytes(LastWriter)
                  \o SubSeq(DocBytes(Other(LastWriter)),
                            Len(DocBytes(LastWriter)) + 1,
                            Len(DocBytes(Other(LastWriter))))
           ELSE DocBytes(LastWriter)

C9_Witness ==
  /\ BothDone
  /\ LongerWriteAfterOpen
  /\ WroteThrough(Other(LastWriter))
  /\ ~WroteThrough(LastWriter)
  /\ file # DocBytes(LastWriter)
  /\ file # DocBytes(Other(LastWriter))

\* C10: an exception leaving generate_html ends the run with a nonzero exit
\* and no completion line; the completion line is printed only after
\* index.html has been written in full and closed.
C10_RenderFailureIsFatal ==
  /\ gen_raised => (pc = "crashed" /\ exitcode = 1 /\ ~HasLine("done"))
  /\ pc = "crashed" => (exitcode = 1 /\ ~HasLine("done"))
  /\ HasLine("done") =>
       (f = Closed /\ ~gen_raised /\ file = Encode(html_content))

\* a write refused by the file system at the close has left part of the
\* document in the file
C10_Witness ==
  /\ gen_raised
  /\ pc = "crashed"
  /\ exitcode = 1
  /\ ~EncodeRaises(html_content)
  /\ Len(Encode(html_content)) < CHUNK_SIZE
  /\ file # <<>>
  /\ Len(file) < Len(Encode(html_content))

====
